---------------------------- MODULE Spec2Model ----------------------------
(***************************************************************************)
(* A model of mpgameserver/http_server.py: the rate limiter (CacheDict,    *)
(* RollingCounter, RateLimiter), the route table (Router.registerRoutes,   *)
(* Router.patternToRegex, Router.getRoute) and the dispatch pipeline       *)
(* (request_response, Router.dispatch).                                    *)
(*                                                                         *)
(* Strings the code indexes (patterns, paths, header values) are tuples of *)
(* one-character strings; a Python exception is the name of its class in a *)
(* "raised" field, "" when nothing was raised.                             *)
(***************************************************************************)
EXTENDS Integers, Sequences, FiniteSets, TLC

VARIABLES
    clock,        \* time.time()*1000, the wall clock in ms
    limiter,      \* the RateLimiter: counter, blocked, limit, interval_ms
    route_table,  \* Router.route_table: method -> list of (regex, tokens, route)
    routes,       \* Router.routes
    last,         \* the most recent dispatch: the request and what came of it
    ret,          \* the most recent RateLimiter.insert: key and outcome
    calls,        \* history: per key, the inserts that returned since it was created
    nsteps,       \* inserts made so far, when the limiter is used on its own
    registered,   \* the resources registerRoutes was called with
    responses,    \* the Response instances handlers hold on to
    compiled,     \* a pattern, what patternToRegex made of it, a path matched
    cache,        \* a CacheDict used on its own, with its access history
    threads,      \* the threads inside RateLimiter.insert, statement by statement
    joined,       \* a path_join_safe call: its arguments and its outcome
    resource,     \* a Resource subclass: its members and its routes()
    transfer      \* a RequestFactory.process call: the request and the writing

vars ==
    <<clock, limiter, route_table, routes, last, ret, calls, nsteps, registered,
      responses, compiled, cache, threads, joined, resource, transfer>>

\* the variables the router and the limiter leave alone
aux == <<responses, compiled, cache, threads, joined, resource, transfer>>

\* the value of a variable in the runs that do not use it
Unused == <<>>

AuxInit ==
    /\ responses = Unused
    /\ compiled = Unused
    /\ cache = Unused
    /\ threads = Unused
    /\ joined = Unused
    /\ resource = Unused
    /\ transfer = Unused

-----------------------------------------------------------------------------
(* Bounds of the model *)

\* RateLimiter.insert calls explored by SpecLimiter
MaxInserts == 6
\* the window total up to which Spec explores Router.dispatch
MaxRequests == 6

\* Wall-clock readings, ms.  With the router's bin width of 15000 ms these are
\* the bin indices 0, 1, 2, 4, 5, 6 and 133333; the last stands for every
\* present-day reading (an index far more than `bins` above 0).
ClockValues == {0, 15000, 30000, 60000, 75000, 90000, 2000000000}

-----------------------------------------------------------------------------
(* RollingCounter *)

\* the bins argument RateLimiter.insert passes
Bins == 4

Sum(s) == LET F[i \in 0..Len(s)] == IF i = 0 THEN 0 ELSE F[i-1] + s[i] IN F[Len(s)]

RECURSIVE PopFront(_, _)
\* while len(self._counts) > self._bins: self._counts.pop(0)
PopFront(counts, bins) ==
    IF Len(counts) > bins THEN PopFront(Tail(counts), bins) ELSE counts

\* RollingCounter.__init__
RollingCounter(interval, bins) ==
    [type |-> "RollingCounter", int |-> 0,
     interval_ms |-> interval \div bins, _current_index |-> 0,
     _bins |-> bins, _counts |-> <<>>, _count |-> 0]

\* a plain int stored in a CacheDict
IntValue(n) ==
    [type |-> "int", int |-> n,
     interval_ms |-> 0, _current_index |-> 0,
     _bins |-> 0, _counts |-> <<>>, _count |-> 0]

\* RollingCounter.increment at clock reading ms:
\* [self: the counter afterwards, ret: the returned total, raised]
increment(self, ms) ==
    LET index  == ms \div self.interval_ms
        moved  == index # self._current_index
        reset  == moved /\ index - self._current_index > self._bins
        counts == IF ~moved THEN self._counts
                  ELSE IF reset THEN <<0>>
                  ELSE PopFront(Append(self._counts, 0), self._bins)
        cur    == IF moved /\ ~reset THEN index ELSE self._current_index
    IN  IF counts = <<>>
        THEN \* self._counts[-1] on an empty list
             [self |-> self, ret |-> 0, raised |-> "IndexError"]
        ELSE LET bumped == [counts EXCEPT ![Len(counts)] = @ + 1]
             IN  [self |-> [self EXCEPT !._counts = bumped,
                                        !._current_index = cur,
                                        !._count = Sum(bumped)],
                  ret |-> Sum(bumped), raised |-> ""]

-----------------------------------------------------------------------------
(* CacheDict: an OrderedDict, here the list of its items, oldest first *)

\* the default of CacheDict.__init__'s cache_len
DefaultCacheLen == 128

Keys(d) == {d.items[i].key : i \in 1..Len(d.items)}

Contains(d, k) == k \in Keys(d)

IndexOf(d, k) == CHOOSE i \in 1..Len(d.items) : d.items[i].key = k

Without(items, i) ==
    [j \in 1..(Len(items) - 1) |-> IF j < i THEN items[j] ELSE items[j + 1]]

RECURSIVE Evict(_, _)
\* while len(self) > self.cache_len: del self[next(iter(self))]
Evict(items, cache_len) ==
    IF Len(items) > cache_len THEN Evict(Tail(items), cache_len) ELSE items

\* CacheDict.__setitem__: store, move to the end, evict from the front
CacheDict_setitem(d, k, v) ==
    LET kept == IF Contains(d, k) THEN Without(d.items, IndexOf(d, k)) ELSE d.items
    IN  [d EXCEPT !.items = Evict(Append(kept, [key |-> k, val |-> v]), d.cache_len)]

\* CacheDict.__init__(cache_len=n), no items given
CacheDict(cache_len) == [cache_len |-> cache_len, items |-> <<>>]

\* a read that returns the value and leaves the key where it is
CacheDict_getitem_nomove(d, k) ==
    [val |-> d.items[IndexOf(d, k)].val, d |-> d]

\* CacheDict.__getitem__ of a key the dict holds: the value, and the dict
\* with the key moved to the end
CacheDict_getitem(d, k) ==
    LET i == IndexOf(d, k)
    IN  [val |-> d.items[i].val,
         d   |-> [d EXCEPT !.items = Append(Without(d.items, i), d.items[i])]]

\* the in-place update of the value object a key refers to
Mutate(d, k, v) == [d EXCEPT !.items[IndexOf(d, k)].val = v]

\* CacheDict(capacity=n): cache_len keeps its default, and the keyword falls
\* through **kwargs to OrderedDict.__init__, which stores it as an item
CacheDict_init_capacity(n) ==
    [cache_len |-> DefaultCacheLen,
     items |-> <<[key |-> "capacity", val |-> IntValue(n)]>>]

-----------------------------------------------------------------------------
(* RateLimiter *)

\* RateLimiter.__init__
RateLimiter(limit, interval_ms, capacity) ==
    [counter |-> CacheDict_init_capacity(capacity),
     blocked |-> CacheDict_init_capacity(capacity),
     limit |-> limit, interval_ms |-> interval_ms]

\* RateLimiter.insert(k) at clock reading ms:
\* [self: the limiter afterwards, ret: the returned boolean, raised]
insert(self, k, ms) ==
    LET c1  == IF ~Contains(self.counter, k)
               THEN CacheDict_setitem(self.counter, k,
                                      RollingCounter(self.interval_ms, Bins))
               ELSE self.counter
    IN  IF ~Contains(c1, k)
        THEN [self |-> [self EXCEPT !.counter = c1], ret |-> FALSE,
              raised |-> "KeyError"]
        ELSE
        LET got == CacheDict_getitem(c1, k)
        IN  IF got.val.type # "RollingCounter"
            THEN [self |-> [self EXCEPT !.counter = got.d], ret |-> FALSE,
                  raised |-> "AttributeError"]
            ELSE
            LET inc == increment(got.val, ms)
            IN  [self   |-> [self EXCEPT !.counter = Mutate(got.d, k, inc.self)],
                 ret    |-> inc.raised = "" /\ inc.ret > self.limit,
                 raised |-> inc.raised]

-----------------------------------------------------------------------------
(* Router.patternToRegex: the compiled regular expression is the list of   *)
(* the pieces the code concatenates between "^" and "\/?$".  A literal    *)
(* part goes into the expression unescaped: the literal parts modelled are *)
(* letters, each optionally followed by a "+", which the expression reads  *)
(* as a repetition of the letter.                                          *)

RECURSIVE SplitFrom(_, _, _)
\* str.split("/"), scanning from position i with the part `cur` under way
SplitFrom(s, i, cur) ==
    IF i > Len(s) THEN <<cur>>
    ELSE IF s[i] = "/" THEN <<cur>> \o SplitFrom(s, i + 1, <<>>)
    ELSE SplitFrom(s, i + 1, Append(cur, s[i]))

Split(s) == SplitFrom(s, 1, <<>>)

\* [part for part in pattern.split("/") if part]
Parts(pattern) == SelectSeq(Split(pattern), LAMBDA part : part # <<>>)

Piece(kind, text) == [kind |-> kind, text |-> text]

RECURSIVE CompileFrom(_, _, _, _, _)
\* the loop of patternToRegex over parts[i..], with re_str, tokens and final
CompileFrom(parts, i, re, tokens, final) ==
    IF i > Len(parts) THEN [raised |-> "", regex |-> re, tokens |-> tokens]
    ELSE
    LET part == parts[i]
        c    == part[Len(part)]
        name == SubSeq(part, 2, Len(part) - 1)
    IN  IF part[1] = ":"
        THEN IF c \in {"?", "*", "+"}
             THEN IF final
                  THEN [raised |-> "ValueError", regex |-> <<>>, tokens |-> <<>>]
                  ELSE CompileFrom(parts, i + 1,
                           Append(re, Piece(CASE c = "?" -> "opt"
                                              [] c = "*" -> "star"
                                              [] OTHER   -> "plus", <<>>)),
                           Append(tokens, name), TRUE)
             ELSE CompileFrom(parts, i + 1, Append(re, Piece("tok", <<>>)),
                              Append(tokens, Tail(part)), final)
        ELSE CompileFrom(parts, i + 1, Append(re, Piece("lit", part)),
                         tokens, final)

\* Router.patternToRegex: [raised, regex, tokens]
patternToRegex(pattern) == CompileFrom(Parts(pattern), 1, <<>>, <<>>, FALSE)

-----------------------------------------------------------------------------
(* re.match of a compiled pattern: backtracking, alternatives in the order *)
(* Python's re tries them (greedy first).                                  *)

\* a capture group: unset (None) or the text it captured
NoGroup == [none |-> TRUE, s |-> <<>>]
Group(s) == [none |-> FALSE, s |-> s]

\* a run that takes slashes whatever the class: [^\/] written as .
RunLen_any(path, pos, slash) == Len(path) - pos + 1

\* the length of the longest run of characters from pos that [^\/] (or .,
\* when slash is TRUE) accepts
RunLen(path, pos, slash) ==
    LET ok(n) == \A j \in pos..(pos + n - 1) : slash \/ path[j] # "/"
    IN  CHOOSE n \in 0..(Len(path) - pos + 1) :
            /\ ok(n)
            /\ \A m \in (n + 1)..(Len(path) - pos + 1) : ~ok(m)

\* the captures of lengths hi, hi-1, .. lo starting at `from`, longest first
Longest(path, from, hi, lo) ==
    [j \in 1..(hi - lo + 1) |->
        [pos |-> from + (hi - j + 1),
         groups |-> <<Group(SubSeq(path, from, from + (hi - j + 1) - 1))>>]]

HasSlash(path, pos) == pos <= Len(path) /\ path[pos] = "/"

\* the length of the run of the character c in path from pos
SameLen(path, pos, c) ==
    CHOOSE n \in 0..(Len(path) - pos + 1) :
        /\ \A j \in pos..(pos + n - 1) : path[j] = c
        /\ (pos + n <= Len(path) => path[pos + n] # c)

RECURSIVE LitEnds(_, _, _, _), LitRepeat(_, _, _, _, _)
\* the positions at which text[i..], read as a regular expression, can end
\* when matched at pos, in the order re tries them: a character followed by
\* "+" is repeated one or more times, longest first
LitEnds(text, i, path, pos) ==
    IF i > Len(text) THEN <<pos>>
    ELSE IF i < Len(text) /\ text[i + 1] = "+"
    THEN LitRepeat(text, i, path, pos, SameLen(path, pos, text[i]))
    ELSE IF pos <= Len(path) /\ path[pos] = text[i]
    THEN LitEnds(text, i + 1, path, pos + 1)
    ELSE <<>>

LitRepeat(text, i, path, pos, n) ==
    IF n < 1 THEN <<>>
    ELSE LitEnds(text, i + 2, path, pos + n)
         \o LitRepeat(text, i, path, pos, n - 1)

\* the ways one piece can match at pos, in the order re tries them
Candidates(piece, path, pos) ==
    CASE piece.kind = "lit" ->  \* \/part
           IF HasSlash(path, pos)
           THEN LET ends == LitEnds(piece.text, 1, path, pos + 1)
                IN  [j \in 1..Len(ends) |-> [pos |-> ends[j], groups |-> <<>>]]
           ELSE <<>>
      [] piece.kind = "tok" ->  \* \/([^\/]+)
           IF HasSlash(path, pos)
           THEN Longest(path, pos + 1, RunLen(path, pos + 1, FALSE), 1)
           ELSE <<>>
      [] piece.kind \in {"opt", "star"} ->  \* (?:\/([^\/]*)|\/)?  (?:\/(.*)|\/)?
           (IF HasSlash(path, pos)
            THEN Longest(path, pos + 1,
                         RunLen(path, pos + 1, piece.kind = "star"), 0)
                 \o <<[pos |-> pos + 1, groups |-> <<NoGroup>>]>>
            ELSE <<>>)
           \o <<[pos |-> pos, groups |-> <<NoGroup>>]>>
      [] OTHER ->  \* plus: \/?(.+)
           (IF HasSlash(path, pos)
            THEN Longest(path, pos + 1, Len(path) - pos, 1)
            ELSE <<>>)
           \o Longest(path, pos, Len(path) - pos + 1, 1)

NoMatch == [ok |-> FALSE, groups |-> <<>>]

RECURSIVE MatchFrom(_, _, _, _), TryAll(_, _, _, _, _)
\* match regex[i..] and the closing \/?$ at pos: [ok, groups]
MatchFrom(regex, i, path, pos) ==
    IF i > Len(regex)
    THEN IF pos = Len(path) + 1 \/ (pos = Len(path) /\ path[pos] = "/")
         THEN [ok |-> TRUE, groups |-> <<>>]
         ELSE NoMatch
    ELSE TryAll(regex, i, path, Candidates(regex[i], path, pos), 1)

TryAll(regex, i, path, cands, j) ==
    IF j > Len(cands) THEN NoMatch
    ELSE LET r == MatchFrom(regex, i + 1, path, cands[j].pos)
         IN  IF r.ok
             THEN [ok |-> TRUE, groups |-> cands[j].groups \o r.groups]
             ELSE TryAll(regex, i, path, cands, j + 1)

\* re_ptn.match(path)
ReMatch(regex, path) == MatchFrom(regex, 1, path, 1)

RECURSIVE ZipDict(_, _, _, _)
\* {k: v for k, v in zip(tokens, groups)}: a dict as its items in insertion
\* order; a repeated key keeps its place and takes the later value
ZipDict(tokens, groups, i, acc) ==
    IF i > Len(tokens) \/ i > Len(groups) THEN acc
    ELSE LET same == {j \in 1..Len(acc) : acc[j].k = tokens[i]}
         IN  ZipDict(tokens, groups, i + 1,
                 IF same = {}
                 THEN Append(acc, [k |-> tokens[i], v |-> groups[i]])
                 ELSE [acc EXCEPT ![CHOOSE j \in same : TRUE].v = groups[i]])

-----------------------------------------------------------------------------
(* Routes and resources registered with the router *)

\* Route.__init__ with the options the get/put/post/delete decorators leave:
\* none for get and delete, max_content_length for put and post
Route(name, method, pattern) ==
    [name |-> name, method |-> method, pattern |-> pattern,
     has_max |-> FALSE, max_content_length |-> 0]

RouteMax(name, method, pattern, max) ==
    [name |-> name, method |-> method, pattern |-> pattern,
     has_max |-> TRUE, max_content_length |-> max]

P_user_id    == <<"/", "u", "s", "e", "r", "/", ":", "i", "d">>
P_user_admin == <<"/", "u", "s", "e", "r", "/", "a", "d", "m", "i", "n">>
P_up         == <<"/", "u", "p">>

\* the lists Resource.routes() returns, one per resource
UserResource ==
    << Route("user.get_user", "GET", P_user_id),
       RouteMax("user.put_up", "PUT", P_up, 10) >>

AdminResource ==
    << Route("admin.get_admin", "GET", P_user_admin),
       RouteMax("admin.put_admin", "PUT", P_user_admin, 0) >>

\* a list whose second route has a method the route table does not know
PatchResource ==
    << RouteMax("patch.put_user", "PUT", P_user_id, -1),
       Route("patch.patch_up", "PATCH", P_up),
       Route("patch.get_up", "GET", P_up) >>

ResourceNames == {"user", "admin", "patch"}

RoutesOf(name) ==
    CASE name = "user"  -> UserResource
      [] name = "admin" -> AdminResource
      [] OTHER          -> PatchResource

RECURSIVE RegisterFrom_append_first(_, _, _, _)
\* a loop that appends the route to the list of routes before it looks at
\* the route's method
RegisterFrom_append_first(table, all, batch, i) ==
    IF i > Len(batch) THEN [route_table |-> table, routes |-> all, raised |-> ""]
    ELSE
    LET route == batch[i]
        c     == patternToRegex(route.pattern)
    IN  IF c.raised # ""
        THEN [route_table |-> table, routes |-> all, raised |-> c.raised]
        ELSE IF route.method \notin DOMAIN table
        THEN [route_table |-> table, routes |-> Append(all, route),
              raised |-> "ValueError"]
        ELSE RegisterFrom_append_first(
                 [table EXCEPT ![route.method] =
                     Append(@, [regex |-> c.regex, tokens |-> c.tokens,
                                route |-> route])],
                 Append(all, route), batch, i + 1)

RECURSIVE RegisterFrom(_, _, _, _)
\* the loop of Router.registerRoutes over batch[i..]
RegisterFrom(table, all, batch, i) ==
    IF i > Len(batch) THEN [route_table |-> table, routes |-> all, raised |-> ""]
    ELSE
    LET route == batch[i]
        c     == patternToRegex(route.pattern)
    IN  IF c.raised # ""
        THEN [route_table |-> table, routes |-> all, raised |-> c.raised]
        ELSE IF route.method \notin DOMAIN table
        THEN [route_table |-> table, routes |-> all, raised |-> "ValueError"]
        ELSE RegisterFrom(
                 [table EXCEPT ![route.method] =
                     Append(@, [regex |-> c.regex, tokens |-> c.tokens,
                                route |-> route])],
                 Append(all, route), batch, i + 1)

\* Router.registerRoutes(batch): [route_table, routes, raised]
registerRoutes(table, all, batch) == RegisterFrom(table, all, batch, 1)

NoRoute == [found |-> FALSE, index |-> 0, endpt |-> Route("", "", <<>>),
            matches |-> <<>>]

RECURSIVE ScanBack(_, _, _)
ScanBack(entries, path, i) ==
    IF i < 1 THEN NoRoute
    ELSE LET m == ReMatch(entries[i].regex, path)
         IN  IF m.ok
             THEN [found |-> TRUE, index |-> i, endpt |-> entries[i].route,
                   matches |-> ZipDict(entries[i].tokens, m.groups, 1, <<>>)]
             ELSE ScanBack(entries, path, i - 1)

\* a scan in which the route registered last wins
ScanFrom_last(entries, path, i) == ScanBack(entries, path, Len(entries))

RECURSIVE ScanFrom(_, _, _)
\* the loop of Router.getRoute over entries[i..]
ScanFrom(entries, path, i) ==
    IF i > Len(entries) THEN NoRoute
    ELSE LET m == ReMatch(entries[i].regex, path)
         IN  IF m.ok
             THEN [found |-> TRUE, index |-> i, endpt |-> entries[i].route,
                   matches |-> ZipDict(entries[i].tokens, m.groups, 1, <<>>)]
             ELSE ScanFrom(entries, path, i + 1)

\* a lookup that falls back to the GET routes for a method it does not know
getRoute_fallback(table, method, path) ==
    IF method \notin DOMAIN table THEN ScanFrom(table["GET"], path, 1)
    ELSE ScanFrom(table[method], path, 1)

\* a lookup in a table that creates the list of a method it does not know
getRoute_table_setdefault(table, method) ==
    IF method \in DOMAIN table THEN table
    ELSE [m \in DOMAIN table \cup {method} |->
             IF m = method THEN <<>> ELSE table[m]]

\* Router.route_table after getRoute(method, path): the membership test and
\* the subscript of a dict leave it as it is
getRoute_table(table, method) == table

\* Router.getRoute(method, path): the route found, its place in the method's
\* list and the captures, or found = FALSE for None
getRoute(table, method, path) ==
    IF method \notin DOMAIN table THEN NoRoute
    ELSE ScanFrom(table[method], path, 1)

-----------------------------------------------------------------------------
(* request_response and Router.dispatch *)

Digit(c) ==
    CASE c = "0" -> 0 [] c = "1" -> 1 [] c = "2" -> 2 [] c = "3" -> 3
      [] c = "4" -> 4 [] c = "5" -> 5 [] c = "6" -> 6 [] c = "7" -> 7
      [] c = "8" -> 8 [] c = "9" -> 9 [] OTHER -> -1

RECURSIVE Digits(_, _, _)
\* the value of the decimal digits s[i..], -1 when one is no digit
Digits(s, i, acc) ==
    IF i > Len(s) THEN acc
    ELSE IF Digit(s[i]) < 0 THEN -1
    ELSE Digits(s, i + 1, 10 * acc + Digit(s[i]))

\* int(b): an optional sign and decimal digits, else ValueError
PyInt(b) ==
    LET signed == b # <<>> /\ b[1] \in {"+", "-"}
        body   == IF signed THEN Tail(b) ELSE b
        v      == IF body = <<>> THEN -1 ELSE Digits(body, 1, 0)
    IN  IF v < 0 THEN [raised |-> "ValueError", v |-> 0]
        ELSE [raised |-> "", v |-> IF signed /\ b[1] = "-" THEN 0 - v ELSE v]

\* a length whose sign is dropped instead of being clamped to 0
ContentLength_abs(values) ==
    IF values = <<>> THEN 0
    ELSE LET n == PyInt(values[1])
         IN  IF n.raised # "" THEN 0 ELSE IF n.v < 0 THEN 0 - n.v ELSE n.v

\* request_content_length of request_response: the first Content-Length
\* value as an int, 0 when that fails or is negative
ContentLength(values) ==
    IF values = <<>> THEN 0  \* IndexError, except Exception
    ELSE LET n == PyInt(values[1])
         IN  IF n.raised # "" THEN 0 ELSE IF n.v < 0 THEN 0 ELSE n.v

\* what the route's callback does when it is called
HandlerResults == {"Response", "raise", "None", "str"}

\* the status code of the Response a callback returns
HandlerStatus == 200

Outcome(status, error, raised) ==
    [status |-> status, error |-> error, raised |-> raised]

\* a size check that also rejects a length equal to the maximum
TooLarge_ge(length, max) == length >= max

\* if request_content_length > max_content_length
TooLarge(length, max) == length > max

\* a callback's Exception is left to propagate
AfterCallback_propagate(h) ==
    CASE h = "Response" -> Outcome(HandlerStatus, "", "")
      [] h = "raise" -> Outcome(0, "", "Exception")
      [] h = "None" -> Outcome(500, "route failed to return a response", "")
      [] OTHER -> Outcome(0, "", "TypeError")

\* the isinstance check runs before None is replaced by the 500 response
AfterCallback_none(h) ==
    CASE h = "Response" -> Outcome(HandlerStatus, "", "")
      [] h = "raise" -> Outcome(500, "route failed to return a response", "")
      [] OTHER -> Outcome(0, "", "TypeError")

\* a non-Response return value is swallowed into the 500 response
AfterCallback_swallow(h) ==
    CASE h = "Response" -> Outcome(HandlerStatus, "", "")
      [] OTHER -> Outcome(500, "route failed to return a response", "")

\* the try/except around endpt.callback(request) and the checks after it:
\* an Exception or None becomes the 500 response, a non-Response a TypeError
AfterCallback(h) ==
    CASE h = "Response" -> Outcome(HandlerStatus, "", "")
      [] h \in {"raise", "None"} ->
             Outcome(500, "route failed to return a response", "")
      [] OTHER -> Outcome(0, "", "TypeError")

\* request_response(router, request), the callback doing h when called:
\* the lookup, whether the callback ran, and the response (status, error
\* body) or the exception raised
request_response(table, request, h) ==
    LET result == getRoute(table, request.method, request.path)
        endpt  == result.endpt
        absent == ~request.has_content_length
        length == IF absent THEN 0 ELSE ContentLength(request.content_length)
        \* response after the header check, then after the size check
        \* (0 stands for None)
        header == IF absent THEN 411 ELSE 0
        checked ==
            IF ~endpt.has_max THEN 0
            ELSE IF TooLarge(length, endpt.max_content_length) THEN 413
            ELSE header
        invoked == result.found /\ checked = 0
        out ==
            IF ~result.found THEN Outcome(404, "path not found", "")
            ELSE IF checked = 411
            THEN Outcome(411, "Content-Length not specified", "")
            ELSE IF checked = 413 THEN Outcome(413, "Payload too large", "")
            ELSE AfterCallback(h)
    IN  [looked |-> TRUE, found |-> result.found, index |-> result.index,
         matches |-> result.matches, invoked |-> invoked,
         handler |-> IF invoked THEN h ELSE "", out |-> out]

\* a dispatch that runs request_response before it looks at the limiter's
\* answer, and answers a blocked request with 429 afterwards
dispatch_lookup_when_blocked(self_limiter, table, request, h, ms) ==
    LET ins == insert(self_limiter, request.ip, ms)
        rr  == request_response(table, request, h)
    IN  IF ins.raised # ""
        THEN [limiter |-> ins.self, limited |-> FALSE, looked |-> FALSE,
              found |-> FALSE, index |-> 0, matches |-> <<>>,
              invoked |-> FALSE, handler |-> "",
              out |-> Outcome(0, "", ins.raised), rendered |-> FALSE]
        ELSE [limiter |-> ins.self, limited |-> ins.ret, looked |-> rr.looked,
              found |-> rr.found, index |-> rr.index, matches |-> rr.matches,
              invoked |-> rr.invoked, handler |-> rr.handler,
              out |-> IF ins.ret THEN Outcome(429, "Too Many Requests", "")
                      ELSE rr.out,
              rendered |-> ins.ret \/ rr.out.raised = ""]

\* a dispatch that leaves the limiter as it was when the request is blocked
dispatch_blocked_not_counted(self_limiter, table, request, h, ms) ==
    LET ins == insert(self_limiter, request.ip, ms)
        rr  == request_response(table, request, h)
    IN  IF ins.raised # ""
        THEN [limiter |-> ins.self, limited |-> FALSE, looked |-> FALSE,
              found |-> FALSE, index |-> 0, matches |-> <<>>,
              invoked |-> FALSE, handler |-> "",
              out |-> Outcome(0, "", ins.raised), rendered |-> FALSE]
        ELSE IF ins.ret
        THEN [limiter |-> self_limiter, limited |-> TRUE, looked |-> FALSE,
              found |-> FALSE, index |-> 0, matches |-> <<>>,
              invoked |-> FALSE, handler |-> "",
              out |-> Outcome(429, "Too Many Requests", ""), rendered |-> TRUE]
        ELSE [limiter |-> ins.self, limited |-> FALSE, looked |-> rr.looked,
              found |-> rr.found, index |-> rr.index, matches |-> rr.matches,
              invoked |-> rr.invoked, handler |-> rr.handler,
              out |-> rr.out, rendered |-> rr.out.raised = ""]

\* Router.dispatch(request) at clock reading ms, the callback doing h:
\* the limiter afterwards and what the caller gets
dispatch(self_limiter, table, request, h, ms) ==
    LET ins == insert(self_limiter, request.ip, ms)
        rr  == request_response(table, request, h)
    IN  IF ins.raised # ""
        THEN [limiter |-> ins.self, limited |-> FALSE, looked |-> FALSE,
              found |-> FALSE, index |-> 0, matches |-> <<>>,
              invoked |-> FALSE, handler |-> "",
              out |-> Outcome(0, "", ins.raised), rendered |-> FALSE]
        ELSE IF ins.ret
        THEN [limiter |-> ins.self, limited |-> TRUE, looked |-> FALSE,
              found |-> FALSE, index |-> 0, matches |-> <<>>,
              invoked |-> FALSE, handler |-> "",
              out |-> Outcome(429, "Too Many Requests", ""), rendered |-> TRUE]
        ELSE [limiter |-> ins.self, limited |-> FALSE, looked |-> rr.looked,
              found |-> rr.found, index |-> rr.index, matches |-> rr.matches,
              invoked |-> rr.invoked, handler |-> rr.handler,
              out |-> rr.out, rendered |-> rr.out.raised = ""]

-----------------------------------------------------------------------------
(* The router: Router.__init__, registerRoutes, dispatch *)

\* RateLimiter(5, 60*1000, 1024) of Router.__init__
RouterLimit == 5
RouterIntervalMs == 60000
RouterCapacity == 1024

\* Router.__init__'s route_table
EmptyRouteTable == [m \in {"DELETE", "GET", "POST", "PUT"} |-> <<>>]

\* keys passed to RateLimiter.insert when the limiter is used on its own
LimiterKeys == {"A", "B", "capacity"}

\* the requests the transport hands to dispatch
Clients == {"A"}
Paths == {P_user_admin, P_up}
\* the Content-Length header: absent, or its list of values
NoHeader == [has |-> FALSE, values |-> <<>>]
Header(v) == [has |-> TRUE, values |-> <<v>>]
ContentLengths ==
    {NoHeader, Header(<<"2", "0">>), Header(<<"1", "0">>),
     Header(<<"-", "1">>), Header(<<"1", "x">>)}
\* GET and PATCH requests carry no body; PUT requests any of the headers
Requests ==
    {[method |-> m, path |-> p, cl |-> NoHeader] :
        m \in {"GET", "PATCH"}, p \in Paths}
    \cup {[method |-> "PUT", path |-> p, cl |-> c] :
        p \in Paths, c \in ContentLengths}

\* clock readings of the router's runs: bin 0, bin 1 and a present-day one
RouterClock == {0, 15000, 2000000000}

NoLast ==
    [ip |-> "", method |-> "", path |-> <<>>,
     has_content_length |-> FALSE, content_length |-> <<>>,
     limited |-> FALSE, looked |-> FALSE, found |-> FALSE, index |-> 0,
     matches |-> <<>>, invoked |-> FALSE, handler |-> "",
     out |-> Outcome(0, "", ""), rendered |-> FALSE]

NoCalls == [n |-> 0, first |-> 0]

NoRet == [k |-> "", ret |-> FALSE, raised |-> "", at |-> 0]

Init ==
    /\ clock \in RouterClock
    /\ limiter = RateLimiter(RouterLimit, RouterIntervalMs, RouterCapacity)
    /\ route_table = EmptyRouteTable
    /\ routes = <<>>
    /\ last = NoLast
    /\ ret = NoRet
    /\ calls = [k \in LimiterKeys |-> NoCalls]
    /\ nsteps = 0
    /\ registered = {}
    /\ AuxInit

\* the wall clock moves on between two requests
Advance ==
    /\ \E t \in RouterClock : t > clock /\ clock' = t
    /\ UNCHANGED <<limiter, route_table, routes, last, ret, calls, nsteps, registered>>
    /\ UNCHANGED aux

\* Router.registerRoutes(resource), each resource at most once; an
\* exception leaves what the loop did
Register(name) ==
    /\ name \notin registered
    /\ \E r \in {registerRoutes(route_table, routes, RoutesOf(name))} :
           /\ route_table' = r.route_table
           /\ routes' = r.routes
    /\ registered' = registered \cup {name}
    /\ last' = NoLast
    /\ UNCHANGED <<clock, limiter, ret, calls, nsteps>>
    /\ UNCHANGED aux

\* RollingCounter.value() of a key's counter, 0 for a key not tracked
Total(self, k) ==
    IF Contains(self.counter, k)
    THEN self.counter.items[IndexOf(self.counter, k)].val._count
    ELSE 0

\* Router.dispatch(request), the callback (when called) doing h; explored
\* while the client's window total is below MaxRequests
Dispatch(ip, rq, h) ==
    /\ Total(limiter, ip) < MaxRequests
    /\ \E d \in {dispatch(limiter, route_table,
                          [ip |-> ip, method |-> rq.method, path |-> rq.path,
                           has_content_length |-> rq.cl.has,
                           content_length |-> rq.cl.values], h, clock)} :
           /\ limiter' = d.limiter
           /\ last' = [ip |-> ip, method |-> rq.method, path |-> rq.path,
                       has_content_length |-> rq.cl.has,
                       content_length |-> rq.cl.values,
                       limited |-> d.limited, looked |-> d.looked,
                       found |-> d.found, index |-> d.index,
                       matches |-> d.matches, invoked |-> d.invoked,
                       handler |-> d.handler, out |-> d.out,
                       rendered |-> d.rendered]
           /\ route_table' = IF d.looked
                             THEN getRoute_table(route_table, rq.method)
                             ELSE route_table
    /\ UNCHANGED <<clock, routes, ret, calls, nsteps, registered>>
    /\ UNCHANGED aux

Next ==
    \/ Advance
    \/ \E name \in ResourceNames : Register(name)
    \/ \E ip \in Clients, rq \in Requests, h \in HandlerResults :
          Dispatch(ip, rq, h)

Spec == Init /\ [][Next]_vars

-----------------------------------------------------------------------------
(* The limiter on its own: RateLimiter(limit, interval_ms, capacity) *)

\* constructor arguments explored
LimitChoices == {1, 5}
IntervalChoices == {60000}
CapacityChoices == {1, 2}

InitLimiter ==
    /\ clock \in ClockValues
    /\ \E l \in LimitChoices, i \in IntervalChoices, c \in CapacityChoices :
          limiter = RateLimiter(l, i, c)
    /\ route_table = EmptyRouteTable
    /\ routes = <<>>
    /\ last = NoLast
    /\ ret = NoRet
    /\ calls = [k \in LimiterKeys |-> NoCalls]
    /\ nsteps = 0
    /\ registered = {}
    /\ AuxInit

\* the wall clock moves on
Tick ==
    /\ \E t \in ClockValues : t > clock /\ clock' = t
    /\ UNCHANGED <<limiter, route_table, routes, last, ret, calls, nsteps, registered>>
    /\ UNCHANGED aux

\* one call of RateLimiter.insert(k)
Insert(k) ==
    /\ nsteps < MaxInserts
    /\ \E r \in {insert(limiter, k, clock)} :
           /\ limiter' = r.self
           /\ ret' = [k |-> k, ret |-> r.ret, raised |-> r.raised, at |-> clock]
           /\ calls' = [j \in LimiterKeys |->
                 IF ~Contains(r.self.counter, j) THEN NoCalls
                 ELSE IF j = k /\ r.raised = ""
                 THEN [n |-> calls[j].n + 1,
                       first |-> IF calls[j].n = 0 THEN clock ELSE calls[j].first]
                 ELSE calls[j]]
    /\ nsteps' = nsteps + 1
    /\ UNCHANGED <<clock, route_table, routes, last, registered>>
    /\ UNCHANGED aux

NextLimiter == Tick \/ \E k \in LimiterKeys : Insert(k)

SpecLimiter == InitLimiter /\ [][NextLimiter]_vars

-----------------------------------------------------------------------------
(* The limiter with the time of every insert call kept *)

\* RateLimiter.insert calls explored by SpecWindow
MaxWindowInserts == 4

\* clock readings, ms: the bins 0, 1, 1, 5, 5 and a present-day one
WindowClock == {0, 15000, 29999, 75000, 89999, 2000000000}

WindowLimits == {1, 2}

WindowKeys == {"A", "B"}

InitWindow ==
    /\ clock \in WindowClock
    /\ \E l \in WindowLimits :
          limiter = RateLimiter(l, RouterIntervalMs, RouterCapacity)
    /\ route_table = EmptyRouteTable
    /\ routes = <<>>
    /\ last = NoLast
    /\ ret = NoRet
    /\ calls = [k \in WindowKeys |-> <<>>]
    /\ nsteps = 0
    /\ registered = {}
    /\ AuxInit

\* the wall clock moves on
TickWindow ==
    /\ \E t \in WindowClock : t > clock /\ clock' = t
    /\ UNCHANGED <<limiter, route_table, routes, last, ret, calls, nsteps,
                   registered>>
    /\ UNCHANGED aux

\* one call of RateLimiter.insert(k); calls[k] keeps the clock reading of
\* every call made for k
InsertWindow(k) ==
    /\ nsteps < MaxWindowInserts
    /\ \E r \in {insert(limiter, k, clock)} :
           /\ limiter' = r.self
           /\ ret' = [k |-> k, ret |-> r.ret, raised |-> r.raised, at |-> clock]
    /\ calls' = [calls EXCEPT ![k] = Append(@, clock)]
    /\ nsteps' = nsteps + 1
    /\ UNCHANGED <<clock, route_table, routes, last, registered>>
    /\ UNCHANGED aux

NextWindow == TickWindow \/ \E k \in WindowKeys : InsertWindow(k)

SpecWindow == InitWindow /\ [][NextWindow]_vars

\* the insert calls for the key of the last insert made no longer than
\* interval_ms before it, the last one included
InWindow ==
    {i \in 1..Len(calls[ret.k]) :
        calls[ret.k][i] >= ret.at - limiter.interval_ms}

\* C24: the limiter is never stricter than configured: insert(k) returns
\* blocked only if more than `limit` insert calls for k, the current one
\* included, were made within the most recent interval_ms milliseconds;
\* calls older than one full window do not contribute.
C24_NoFalsePositive ==
    (/\ ret.k \in WindowKeys
     /\ ret.raised = ""
     /\ ret.ret)
    => Cardinality(InWindow) > limiter.limit

-----------------------------------------------------------------------------
(* Claims about the limiter *)

\* C1: when insert(k) returns L+1 times in succession for one key k, every
\* call inside one window of interval_ms from the first, the first L calls
\* return False (not blocked) and the (L+1)-th returns True (blocked).
C1_LimitPlusOneBlocked ==
    \A k \in LimiterKeys :
        (/\ ret.k = k
         /\ ret.raised = ""
         /\ calls[k].n >= 1
         /\ ret.at - calls[k].first < limiter.interval_ms)
        => /\ calls[k].n <= limiter.limit => ret.ret = FALSE
           /\ calls[k].n = limiter.limit + 1 => ret.ret = TRUE

\* the counter the limiter holds for the key of the last insert
LastCounter ==
    limiter.counter.items[IndexOf(limiter.counter, ret.k)].val

\* C23: after every RollingCounter.increment the stored bin index equals the
\* bin index of the time of that increment (the time in ms divided by the
\* bin width), whether the history was discarded or a new bin appended.
C23_StoredIndexIsCurrent ==
    (/\ ret.k # ""
     /\ ret.raised = ""
     /\ Contains(limiter.counter, ret.k))
    => LastCounter._current_index = ret.at \div LastCounter.interval_ms

\* the capacity the limiter was constructed with: the constructor keeps it
\* nowhere but in the item CacheDict(capacity=capacity) stores
CapacityGiven ==
    limiter.counter.items[IndexOf(limiter.counter, "capacity")].val.int

\* the keys the limiter holds a rolling counter for
Tracked ==
    {k \in Keys(limiter.counter) :
        limiter.counter.items[IndexOf(limiter.counter, k)].val.type
            = "RollingCounter"}

\* C17: a RateLimiter constructed with capacity C holds rolling counters for
\* at most C keys after any sequence of insert calls.
C17_TrackedKeysBounded ==
    Contains(limiter.counter, "capacity") =>
        Cardinality(Tracked) <= CapacityGiven

-----------------------------------------------------------------------------
(* Claims about dispatch, read off `last`, the most recent dispatch *)

\* a request was dispatched since the route table last changed
Served == last.method # ""

\* the limiter's insert returned False for the last request
PassedRateCheck ==
    /\ Served
    /\ ~last.limited
    /\ last.out.raised \notin {"IndexError", "KeyError", "AttributeError"}

\* the routes registered for the last request's method
Entries ==
    IF last.method \in DOMAIN route_table THEN route_table[last.method]
    ELSE <<>>

Accepts(i) == ReMatch(Entries[i].regex, last.path).ok

Captures(i) ==
    ZipDict(Entries[i].tokens, ReMatch(Entries[i].regex, last.path).groups,
            1, <<>>)

\* the route the last request was matched to
Matched == Entries[last.index].route

\* the last request's Content-Length header parses to an integer
Parses ==
    /\ last.has_content_length
    /\ last.content_length # <<>>
    /\ PyInt(last.content_length[1]).raised = ""

Declared == PyInt(last.content_length[1]).v

\* the request of the last dispatch
LastRequest ==
    [ip |-> last.ip, method |-> last.method, path |-> last.path,
     has_content_length |-> last.has_content_length,
     content_length |-> last.content_length]

\* C2: when the limiter's insert for the request's client IP reports
\* blocked, dispatch returns status 429, getRoute is not called and no
\* handler is invoked.
C2_BlockedShortCircuits ==
    last.limited =>
        /\ last.out.status = 429
        /\ last.out.raised = ""
        /\ ~last.looked
        /\ ~last.invoked

\* a blocked request for which a lookup would have found a route
C2_Witness ==
    /\ last.limited
    /\ last.out.status = 429
    /\ \E i \in 1..Len(Entries) : Accepts(i)

\* C3: getRoute returns the earliest-registered route of the method whose
\* matcher accepts the path, with that route's captures: no route registered
\* before the returned one accepts the path.
C3_FirstRegisteredWins ==
    last.looked =>
        \A i \in 1..Len(Entries) :
            Accepts(i) =>
                /\ last.found
                /\ last.index <= i
                /\ Accepts(last.index)
                /\ last.matches = Captures(last.index)

\* /user/:id registered before /user/admin, request GET /user/admin: the
\* first route, with id = "admin"
C3_Witness ==
    /\ last.looked
    /\ last.method = "GET"
    /\ last.path = P_user_admin
    /\ Len(Entries) >= 2
    /\ Entries[1].route.pattern = P_user_id
    /\ Entries[2].route.pattern = P_user_admin
    /\ Accepts(1) /\ Accepts(2)
    /\ last.index = 1
    /\ last.matches = <<[k |-> <<"i", "d">>,
                         v |-> Group(<<"a", "d", "m", "i", "n">>)]>>

\* C4: a request that passes the rate check and whose method has no
\* registered route accepting the path (every method other than
\* GET/PUT/POST/DELETE included) gets status 404 with the error body
\* "path not found", and no handler is invoked.
C4_NoRouteIs404 ==
    (PassedRateCheck /\ \A i \in 1..Len(Entries) : ~Accepts(i)) =>
        /\ last.out.status = 404
        /\ last.out.error = "path not found"
        /\ last.out.raised = ""
        /\ ~last.invoked

\* a PATCH request for a path a registered GET route accepts
C4_Witness ==
    /\ PassedRateCheck
    /\ last.method = "PATCH"
    /\ last.out.status = 404
    /\ \E i \in 1..Len(route_table["GET"]) :
           ReMatch(route_table["GET"][i].regex, last.path).ok

\* C5 as stated: on a matched route declaring a maximum M, a Content-Length
\* that parses to an integer above M gets 413 without the handler, and one
\* equal to M is not rejected.
C5_EqualToMaxNotRejected ==
    (PassedRateCheck /\ last.found /\ Matched.has_max /\ Parses) =>
        /\ Declared > Matched.max_content_length =>
               last.out.status = 413 /\ ~last.invoked
        /\ Declared = Matched.max_content_length =>
               last.out.status # 413 /\ last.invoked

\* C5, amended: a Content-Length above M gets 413 without the handler; one
\* equal to M is not rejected when it is not negative.
C5_TooLargeIs413 ==
    (PassedRateCheck /\ last.found /\ Matched.has_max /\ Parses) =>
        /\ Declared > Matched.max_content_length =>
               last.out.status = 413 /\ ~last.invoked
        /\ (Declared = Matched.max_content_length /\ Declared >= 0) =>
               last.out.status # 413 /\ last.invoked

\* Content-Length 20 on the PUT route with a 10-byte maximum
C5_Witness ==
    /\ PassedRateCheck /\ last.found /\ Matched.has_max /\ Parses
    /\ Matched.max_content_length = 10
    /\ Declared = 20
    /\ last.out.status = 413

\* C6: on a matched route declaring a maximum, a request without a
\* Content-Length header gets 411 without the handler; a route declaring no
\* maximum never rejects with 411.
C6_MissingLengthIs411 ==
    (PassedRateCheck /\ last.found) =>
        /\ (Matched.has_max /\ ~last.has_content_length) =>
               last.out.status = 411 /\ ~last.invoked
        /\ ~Matched.has_max => last.out.status # 411

\* C7: on a matched route declaring a maximum M >= 0, a Content-Length that
\* is present but no integer, or negative, counts as zero: neither 411 nor
\* 413, and the handler is invoked.
C7_MalformedLengthIsZero ==
    (/\ PassedRateCheck /\ last.found /\ Matched.has_max
     /\ Matched.max_content_length >= 0
     /\ last.has_content_length
     /\ (~Parses \/ Declared < 0)) =>
        /\ last.out.status \notin {411, 413}
        /\ last.invoked

\* Content-Length -1 on the PUT route with a 0-byte maximum reaches the
\* handler
C7_Witness ==
    /\ PassedRateCheck /\ last.found /\ Matched.has_max
    /\ Matched.max_content_length = 0
    /\ last.has_content_length
    /\ Parses /\ Declared < 0
    /\ last.invoked

\* C8: when the invoked handler raises, dispatch returns a response with
\* status 500 instead of raising, and leaves the route table as it was and
\* the limiter as a handler that returned normally would have left it.
C8_HandlerExceptionContained ==
    [][(clock' = clock /\ last'.invoked /\ last'.handler = "raise") =>
          /\ last'.out.status = 500
          /\ last'.out.raised = ""
          /\ route_table' = route_table
          /\ routes' = routes
          /\ limiter' = dispatch(limiter, route_table, LastRequest',
                                 "Response", clock).limiter]_vars

C8_Witness ==
    /\ last.invoked
    /\ last.handler = "raise"
    /\ last.out.status = 500

\* C9: when the invoked handler returns None, dispatch returns the 500
\* response instead of failing or returning nothing.
C9_NoneIs500 ==
    (last.invoked /\ last.handler = "None") =>
        /\ last.out.status = 500
        /\ last.out.raised = ""
        /\ last.rendered

C9_Witness ==
    /\ last.invoked
    /\ last.handler = "None"
    /\ last.out.status = 500
    /\ last.out.error = "route failed to return a response"

\* C10: when the invoked handler returns a value that is neither None nor
\* a Response, the TypeError propagates out of dispatch: no response (no
\* 500 either) is produced and nothing is rendered.
C10_NonResponseRaises ==
    (last.invoked /\ last.handler = "str") =>
        /\ last.out.raised = "TypeError"
        /\ last.out.status = 0
        /\ ~last.rendered

C10_Witness ==
    /\ last.invoked
    /\ last.handler = "str"
    /\ last.out.raised = "TypeError"

\* C22: dispatch never changes the route table: whatever the request and
\* the outcome, Router.route_table and Router.routes after dispatch are what
\* they were before; only registerRoutes modifies them.
C22_OnlyRegisterChangesRoutes ==
    [][registered' = registered =>
          /\ route_table' = route_table
          /\ routes' = routes]_vars

\* a request with a method the table does not know was looked up while
\* routes were registered
C22_Witness ==
    /\ last.looked
    /\ last.method = "PATCH"
    /\ routes # <<>>
    /\ DOMAIN route_table = DOMAIN EmptyRouteTable

-----------------------------------------------------------------------------
(* Response rendering: Response._get_payload as Router.dispatch calls it *)

\* renders a Response instance is followed through
MaxRenders == 3

\* Response.__init__(payload, compress=...): `gzipped` is the number of gzip
\* layers around the payload the handler supplied, `renders` the history of
\* _get_payload calls on the instance
Response(compress) ==
    [compress |-> compress, gzipped |-> 0, headers |-> {}, renders |-> 0]

\* Response._get_payload(request)
Response_get_payload(self) ==
    IF self.compress
    THEN [self EXCEPT !.gzipped = @ + 1,
                      !.headers = @ \cup {"Vary", "Content-Encoding"},
                      !.renders = @ + 1]
    ELSE [self EXCEPT !.renders = @ + 1]

\* the Response instances handlers keep and return: one plain, one compressed
Instances == {"plain", "gzip"}

InitRender ==
    /\ clock \in RouterClock
    /\ limiter = RateLimiter(RouterLimit, RouterIntervalMs, RouterCapacity)
    /\ \E r \in {registerRoutes(EmptyRouteTable, <<>>, UserResource)} :
          route_table = r.route_table /\ routes = r.routes
    /\ last = NoLast
    /\ ret = NoRet
    /\ calls = [k \in LimiterKeys |-> NoCalls]
    /\ nsteps = 0
    /\ registered = {"user"}
    /\ responses = [i \in Instances |-> Response(i = "gzip")]
    /\ compiled = Unused
    /\ cache = Unused
    /\ threads = Unused
    /\ joined = Unused
    /\ resource = Unused
    /\ transfer = Unused

\* Router.dispatch(request), the callback (when called) returning the
\* instance i it holds; dispatch renders whatever response it ends up with.
\* Explored while the client's window total is below MaxRequests.
Serve(ip, rq, i) ==
    /\ responses[i].renders < MaxRenders
    /\ Total(limiter, ip) < MaxRequests
    /\ \E d \in {dispatch(limiter, route_table,
                          [ip |-> ip, method |-> rq.method, path |-> rq.path,
                           has_content_length |-> rq.cl.has,
                           content_length |-> rq.cl.values],
                          "Response", clock)} :
           /\ limiter' = d.limiter
           /\ last' = [ip |-> ip, method |-> rq.method, path |-> rq.path,
                       has_content_length |-> rq.cl.has,
                       content_length |-> rq.cl.values,
                       limited |-> d.limited, looked |-> d.looked,
                       found |-> d.found, index |-> d.index,
                       matches |-> d.matches, invoked |-> d.invoked,
                       handler |-> d.handler, out |-> d.out,
                       rendered |-> d.rendered]
           /\ responses' =
                 IF d.invoked /\ d.rendered
                 THEN [responses EXCEPT ![i] = Response_get_payload(@)]
                 ELSE responses
    /\ UNCHANGED <<clock, route_table, routes, ret, calls, nsteps, registered>>
    /\ UNCHANGED <<compiled, cache, threads, joined, resource, transfer>>

NextRender ==
    \E ip \in Clients, rq \in Requests, i \in Instances : Serve(ip, rq, i)

SpecRender == InitRender /\ [][NextRender]_vars

\* C11: over any sequence of dispatch calls no Response instance is rendered
\* (_get_payload) more than once, also when a handler returns the same
\* instance for several requests; a compressed payload is never compressed
\* twice.
C11_RenderedOnce ==
    \A i \in Instances :
        /\ responses[i].renders <= 1
        /\ responses[i].gzipped <= 1

-----------------------------------------------------------------------------
(* Patterns on their own: Router.registerRoutes of one route, then         *)
(* Router.getRoute of one path                                             *)

\* segments of the patterns explored
MaxSegments == 2
\* characters of the paths explored
MaxPathLen == 5

\* a literal, a literal with a character re reads as an operator, and a
\* token without and with each suffix
Segments ==
    {<<"a">>, <<"a", "+">>, <<":", "x">>, <<":", "x", "?">>,
     <<":", "x", "*">>, <<":", "x", "+">>}

RECURSIVE Join(_)
\* the pattern (or path) "/" + segment, for each segment
Join(segs) ==
    IF segs = <<>> THEN <<>>
    ELSE <<"/">> \o Head(segs) \o Join(Tail(segs))

Patterns ==
    {Join(segs) : segs \in UNION {[1..n -> Segments] : n \in 0..MaxSegments}}

PathAlphabet == {"/", "a", "+"}

PatternPaths == UNION {[1..n -> PathAlphabet] : n \in 0..MaxPathLen}

\* `compiled` before registerRoutes
NewPattern(pattern) ==
    [stage |-> "new", pattern |-> pattern, raised |-> "", regex |-> <<>>,
     tokens |-> <<>>, path |-> <<>>, found |-> FALSE, matches |-> <<>>]

InitPattern ==
    /\ clock = 0
    /\ limiter = RateLimiter(RouterLimit, RouterIntervalMs, RouterCapacity)
    /\ route_table = EmptyRouteTable
    /\ routes = <<>>
    /\ last = NoLast
    /\ ret = NoRet
    /\ calls = [k \in LimiterKeys |-> NoCalls]
    /\ nsteps = 0
    /\ registered = {}
    /\ responses = Unused
    /\ \E pattern \in Patterns : compiled = NewPattern(pattern)
    /\ cache = Unused
    /\ threads = Unused
    /\ joined = Unused
    /\ resource = Unused
    /\ transfer = Unused

\* Router.registerRoutes([route]) for a GET route with the pattern;
\* patternToRegex's ValueError propagates and leaves the table empty
Compile ==
    /\ compiled.stage = "new"
    /\ \E r \in {registerRoutes(route_table, routes,
                                <<Route("r.h", "GET", compiled.pattern)>>)} :
           /\ route_table' = r.route_table
           /\ routes' = r.routes
           /\ compiled' =
                 IF r.raised # ""
                 THEN [compiled EXCEPT !.stage = "compiled",
                                       !.raised = r.raised]
                 ELSE [compiled EXCEPT !.stage = "compiled",
                                       !.regex = r.route_table["GET"][1].regex,
                                       !.tokens = r.route_table["GET"][1].tokens]
    /\ UNCHANGED <<clock, limiter, last, ret, calls, nsteps, registered>>
    /\ UNCHANGED <<responses, cache, threads, joined, resource, transfer>>

\* Router.getRoute("GET", path) on the table holding the one route
Match(path) ==
    /\ compiled.stage = "compiled"
    /\ compiled.raised = ""
    /\ \E r \in {getRoute(route_table, "GET", path)} :
           compiled' = [compiled EXCEPT
                           !.stage = "matched",
                           !.path = path,
                           !.found = r.found,
                           !.matches = r.matches]
    /\ UNCHANGED <<clock, limiter, route_table, routes, last, ret, calls,
                   nsteps, registered>>
    /\ UNCHANGED <<responses, cache, threads, joined, resource, transfer>>

NextPattern == Compile \/ \E path \in PatternPaths : Match(path)

SpecPattern == InitPattern /\ [][NextPattern]_vars

-----------------------------------------------------------------------------
(* Claims about patterns, read off `compiled` *)

IsToken(part) == part[1] = ":"

\* a token suffixed with ?, * or +
IsSuffixed(part) == IsToken(part) /\ part[Len(part)] \in {"?", "*", "+"}

\* at most one suffixed token, and that one the last segment
SuffixedOnlyLast(parts) ==
    \A i \in 1..Len(parts) : IsSuffixed(parts[i]) => i = Len(parts)

\* C12: compiling a pattern fails with the invalid-pattern error whenever a
\* token suffixed with ?, * or + is followed by a further segment, literal
\* or token, or the pattern holds more than one such token; it succeeds only
\* when at most one such token occurs and it is the last segment.
C12_MisplacedSuffixRejected ==
    compiled.stage # "new" =>
        IF SuffixedOnlyLast(Parts(compiled.pattern))
        THEN compiled.raised = ""
        ELSE compiled.raised = "ValueError"

\* no suffixed token at all
PlainOnly(parts) == \A i \in 1..Len(parts) : ~IsSuffixed(parts[i])

\* every literal part is letters, with no character re reads as an operator
LettersOnly(parts) ==
    \A i \in 1..Len(parts) :
        ~IsToken(parts[i]) => \A j \in 1..Len(parts[i]) : parts[i][j] # "+"

\* the segments of a path: what stands after each of its slashes
SegsOf(path) == IF path = <<>> THEN <<>> ELSE Tail(Split(path))

\* path is the pattern of plain parts with a non-empty slash-free value
\* substituted for each token
Instance(parts, path) ==
    /\ path = <<>> \/ path[1] = "/"
    /\ Len(SegsOf(path)) = Len(parts)
    /\ \A i \in 1..Len(parts) :
           /\ SegsOf(path)[i] # <<>>
           /\ ~IsToken(parts[i]) => SegsOf(path)[i] = parts[i]

RECURSIVE Values(_, _, _)
\* the values substituted for the tokens of parts[i..], in declaration order
Values(parts, segs, i) ==
    IF i > Len(parts) THEN <<>>
    ELSE IF IsToken(parts[i]) THEN <<segs[i]>> \o Values(parts, segs, i + 1)
    ELSE Values(parts, segs, i + 1)

ThePattern == Parts(compiled.pattern)
ThePrefix == SubSeq(ThePattern, 1, Len(ThePattern) - 1)
FromPos(path, k) == SubSeq(path, k, Len(path))

\* C13: for a pattern of literals and plain tokens only and a path obtained
\* by substituting a non-empty slash-free value for each token, compiling
\* and matching succeeds and returns exactly the substituted values, one per
\* token, in declaration order.
C13_SubstitutionRoundTrip ==
    (/\ compiled.stage = "matched"
     /\ PlainOnly(ThePattern)
     /\ Instance(ThePattern, compiled.path)) =>
        LET values == Values(ThePattern, SegsOf(compiled.path), 1)
        IN  /\ compiled.found
            /\ [j \in 1..Len(compiled.matches) |-> compiled.matches[j].v]
                   = [j \in 1..Len(values) |-> Group(values[j])]

\* the pattern ends in a token with the suffix c, after plain parts whose
\* literals are letters
EndsWith(c) ==
    /\ ThePattern # <<>>
    /\ IsToken(ThePattern[Len(ThePattern)])
    /\ ThePattern[Len(ThePattern)][Len(ThePattern[Len(ThePattern)])] = c
    /\ PlainOnly(ThePrefix)
    /\ LettersOnly(ThePrefix)

\* the position of the slash that separates the preceding segments from a
\* non-empty further segment, 0 when the path has no such shape
PlusSlash(path) ==
    LET ks == {k \in 1..(Len(path) - 1) :
                  /\ Instance(ThePrefix, SubSeq(path, 1, k - 1))
                  /\ path[k] = "/"
                  /\ path[k + 1] # "/"}
    IN  IF ks = {} THEN 0 ELSE CHOOSE k \in ks : TRUE

\* C14: a pattern whose final token is suffixed with + matches a path if and
\* only if the path is the preceding segments, a separating slash and at
\* least one further non-empty segment, and the capture is everything after
\* that slash (/files/:rest+ matches neither /files nor /filesabc nor
\* /files/).
C14_PlusNeedsSegment ==
    (compiled.stage = "matched" /\ EndsWith("+")) =>
        /\ compiled.found <=> PlusSlash(compiled.path) # 0
        /\ compiled.found =>
               compiled.matches[Len(compiled.matches)].v =
                   Group(FromPos(compiled.path, PlusSlash(compiled.path) + 1))

\* path is the preceding segments followed by nothing or by one further
\* slash-free segment (empty or not), a closing slash allowed as after every
\* pattern
OptShape(path) ==
    \E k \in 0..Len(path) :
        /\ Instance(ThePrefix, SubSeq(path, 1, k))
        /\ LET suffix == FromPos(path, k + 1)
               rest   == IF suffix = <<>> THEN <<>> ELSE Tail(suffix)
               seg    == IF rest # <<>> /\ rest[Len(rest)] = "/"
                         THEN SubSeq(rest, 1, Len(rest) - 1) ELSE rest
           IN  \/ suffix = <<>>
               \/ /\ suffix[1] = "/"
                  /\ \A j \in 1..Len(seg) : seg[j] # "/"

-----------------------------------------------------------------------------
(* CacheDict on its own: item writes d[k] = v and item reads d[k] *)

CacheLens == {1, 2}
CacheKeys == {"A", "B", "C"}
CacheValues == {0, 1}

\* history: the keys accessed so far, each once, least recently accessed
\* first
Touch(recent, k) == Append(SelectSeq(recent, LAMBDA j : j # k), k)

\* history: of the keys in `held`, the one accessed least recently
Oldest(recent, held) ==
    IF held = {} THEN ""
    ELSE recent[CHOOSE i \in 1..Len(recent) :
                    /\ recent[i] \in held
                    /\ \A j \in 1..(i - 1) : recent[j] \notin held]

InitCache ==
    /\ clock = 0
    /\ limiter = RateLimiter(RouterLimit, RouterIntervalMs, RouterCapacity)
    /\ route_table = EmptyRouteTable
    /\ routes = <<>>
    /\ last = NoLast
    /\ ret = NoRet
    /\ calls = [k \in LimiterKeys |-> NoCalls]
    /\ nsteps = 0
    /\ registered = {}
    /\ responses = Unused
    /\ compiled = Unused
    /\ \E n \in CacheLens :
          cache = [d |-> CacheDict(n), recent |-> <<>>, op |-> "", k |-> "",
                   raised |-> "", before |-> {}, lru |-> "", evicted |-> {}]
    /\ threads = Unused
    /\ joined = Unused
    /\ resource = Unused
    /\ transfer = Unused

\* d[k] = v
Write(k, v) ==
    /\ \E d \in {CacheDict_setitem(cache.d, k, v)} :
           cache' = [d |-> d, recent |-> Touch(cache.recent, k),
                     op |-> "write", k |-> k, raised |-> "",
                     before |-> Keys(cache.d),
                     lru |-> Oldest(cache.recent, Keys(cache.d)),
                     evicted |-> Keys(cache.d) \ Keys(d)]
    /\ UNCHANGED <<clock, limiter, route_table, routes, last, ret, calls,
                   nsteps, registered>>
    /\ UNCHANGED <<responses, compiled, threads, joined, resource, transfer>>

\* d[k]: KeyError for a key the dict does not hold
Read(k) ==
    /\ IF Contains(cache.d, k)
       THEN \E g \in {CacheDict_getitem(cache.d, k)} :
               cache' = [d |-> g.d, recent |-> Touch(cache.recent, k),
                         op |-> "read", k |-> k, raised |-> "",
                         before |-> Keys(cache.d),
                         lru |-> Oldest(cache.recent, Keys(cache.d)),
                         evicted |-> Keys(cache.d) \ Keys(g.d)]
       ELSE cache' = [cache EXCEPT !.op = "read", !.k = k,
                                   !.raised = "KeyError",
                                   !.before = Keys(cache.d),
                                   !.lru = Oldest(cache.recent, Keys(cache.d)),
                                   !.evicted = {}]
    /\ UNCHANGED <<clock, limiter, route_table, routes, last, ret, calls,
                   nsteps, registered>>
    /\ UNCHANGED <<responses, compiled, threads, joined, resource, transfer>>

NextCache ==
    \/ \E k \in CacheKeys, v \in CacheValues : Write(k, v)
    \/ \E k \in CacheKeys : Read(k)

SpecCache == InitCache /\ [][NextCache]_vars

\* C16: a CacheDict of capacity N holds at most N keys after any sequence
\* of item writes and reads, and a write that would exceed N removes exactly
\* the key whose most recent read or write is oldest; no other operation
\* removes a key.
C16_LeastRecentlyUsedEvicted ==
    /\ Cardinality(Keys(cache.d)) <= cache.d.cache_len
    /\ Len(cache.d.items) = Cardinality(Keys(cache.d))
    /\ IF /\ cache.op = "write"
          /\ cache.k \notin cache.before
          /\ Cardinality(cache.before) = cache.d.cache_len
       THEN cache.evicted = {cache.lru}
       ELSE cache.evicted = {}

\* N = 2: A written, B written, A read, then C written: B is evicted
C16_Witness ==
    /\ cache.d.cache_len = 2
    /\ cache.recent = <<"B", "A", "C">>
    /\ cache.op = "write" /\ cache.k = "C"
    /\ cache.evicted = {"B"}
    /\ Keys(cache.d) = {"A", "C"}

-----------------------------------------------------------------------------
(* RateLimiter.insert called from several threads at once.  The steps of a *)
(* call are the statements of insert: the membership test, the creation of *)
(* the counter, and the lookup with its increment.  Each CacheDict method  *)
(* is taken as one step; interleavings inside a method only add behaviours.*)

\* calls each thread makes
MaxCalls == 2

Threads == {1, 2}

RECURSIVE Fill(_, _, _)
\* the limiter after one insert after the other, each for a client not seen
\* before (named by the number of items held), until the counter cache holds
\* n items
Fill(self, n, ms) ==
    IF Len(self.counter.items) >= n THEN self
    ELSE Fill(insert(self, ToString(Len(self.counter.items)), ms).self, n, ms)

\* clients served before the threads start: with the "capacity" item they
\* fill the counter cache up to its cache_len
Served0 == DefaultCacheLen - 1

\* the keys the threads insert: the client served longest ago and two new
\* clients
RaceKeys == {ToString(1), ToString(Served0 + 1), ToString(Served0 + 2)}

IdleThread == [pc |-> "idle", k |-> "", raised |-> "", ret |-> FALSE, n |-> 0]

InitRace ==
    /\ clock = 15000
    /\ limiter = Fill(RateLimiter(RouterLimit, RouterIntervalMs,
                                  RouterCapacity), Served0 + 1, 15000)
    /\ route_table = EmptyRouteTable
    /\ routes = <<>>
    /\ last = NoLast
    /\ ret = NoRet
    /\ calls = [k \in LimiterKeys |-> NoCalls]
    /\ nsteps = 0
    /\ registered = {}
    /\ responses = Unused
    /\ compiled = Unused
    /\ cache = Unused
    /\ threads = [t \in Threads |-> IdleThread]
    /\ joined = Unused
    /\ resource = Unused
    /\ transfer = Unused

RaceUnchanged ==
    /\ UNCHANGED <<clock, route_table, routes, last, ret, calls, nsteps,
                   registered>>
    /\ UNCHANGED <<responses, compiled, cache, joined, resource, transfer>>

\* thread t enters insert(k)
Call(t, k) ==
    /\ threads[t].pc = "idle"
    /\ threads[t].n < MaxCalls
    /\ threads' = [threads EXCEPT ![t] =
                      [pc |-> "check", k |-> k, raised |-> "", ret |-> FALSE,
                       n |-> @.n + 1]]
    /\ UNCHANGED limiter
    /\ RaceUnchanged

\* if k not in self.counter
CheckKey(t) ==
    /\ threads[t].pc = "check"
    /\ threads' = [threads EXCEPT ![t].pc =
                      IF Contains(limiter.counter, threads[t].k)
                      THEN "lookup" ELSE "create"]
    /\ UNCHANGED limiter
    /\ RaceUnchanged

\* self.counter[k] = RollingCounter(self.interval_ms, bins=4)
CreateCounter(t) ==
    /\ threads[t].pc = "create"
    /\ limiter' = [limiter EXCEPT !.counter =
                      CacheDict_setitem(@, threads[t].k,
                          RollingCounter(limiter.interval_ms, Bins))]
    /\ threads' = [threads EXCEPT ![t].pc = "lookup"]
    /\ RaceUnchanged

\* count = self.counter[k].increment(); return count > self.limit
LookupIncrement(t) ==
    /\ threads[t].pc = "lookup"
    /\ IF ~Contains(limiter.counter, threads[t].k)
       THEN /\ threads' = [threads EXCEPT ![t].pc = "idle",
                                          ![t].raised = "KeyError"]
            /\ UNCHANGED limiter
       ELSE \E g \in {CacheDict_getitem(limiter.counter, threads[t].k)} :
            \E inc \in {increment(g.val, clock)} :
               /\ limiter' = [limiter EXCEPT !.counter =
                                 Mutate(g.d, threads[t].k, inc.self)]
               /\ threads' = [threads EXCEPT
                                 ![t].pc = "idle",
                                 ![t].raised = inc.raised,
                                 ![t].ret = inc.raised = ""
                                            /\ inc.ret > limiter.limit]
    /\ RaceUnchanged

NextRace ==
    \E t \in Threads :
        \/ \E k \in RaceKeys : Call(t, k)
        \/ CheckKey(t)
        \/ CreateCounter(t)
        \/ LookupIncrement(t)

SpecRace == InitRace /\ [][NextRace]_vars

\* C18: in every interleaving of two or more insert calls no call fails
\* because its key was evicted between the membership check and the lookup,
\* and the key cache never holds more keys than its capacity.
C18_InsertProtected ==
    /\ \A t \in Threads : threads[t].raised # "KeyError"
    /\ Len(limiter.counter.items) <= RouterCapacity

-----------------------------------------------------------------------------
\* path_join_safe: a trusted root directory joined with an untrusted filename

\* longest filename tried
MaxNameLen == 4

\* str.replace("\\", "/")
ReplaceBackslash(s) == [i \in 1..Len(s) |-> IF s[i] = "\\" THEN "/" ELSE s[i]]

StartsWith(s, prefix) ==
    /\ Len(s) >= Len(prefix)
    /\ SubSeq(s, 1, Len(prefix)) = prefix

\* posixpath.join(a, b): an absolute b discards a
os_path_join(a, b) ==
    IF StartsWith(b, <<"/">>) THEN b
    ELSE IF a = <<>> \/ a[Len(a)] = "/" THEN a \o b
    ELSE a \o <<"/">> \o b

RECURSIVE NormComps(_, _, _, _)
\* the loop of posixpath.normpath over the components of the path
NormComps(comps, i, initial_slashes, new_comps) ==
    IF i > Len(comps) THEN new_comps
    ELSE IF comps[i] \in {<<>>, <<".">>}
    THEN NormComps(comps, i + 1, initial_slashes, new_comps)
    ELSE IF \/ comps[i] # <<".", ".">>
            \/ (initial_slashes = 0 /\ new_comps = <<>>)
            \/ (new_comps # <<>> /\ new_comps[Len(new_comps)] = <<".", ".">>)
    THEN NormComps(comps, i + 1, initial_slashes, Append(new_comps, comps[i]))
    ELSE IF new_comps # <<>>
    THEN NormComps(comps, i + 1, initial_slashes,
                   SubSeq(new_comps, 1, Len(new_comps) - 1))
    ELSE NormComps(comps, i + 1, initial_slashes, new_comps)

RECURSIVE SlashJoin(_)
\* "/".join(comps)
SlashJoin(comps) ==
    IF comps = <<>> THEN <<>>
    ELSE IF Len(comps) = 1 THEN Head(comps)
    ELSE Head(comps) \o <<"/">> \o SlashJoin(Tail(comps))

\* posixpath.normpath(path)
os_path_normpath(path) ==
    IF path = <<>> THEN <<".">>
    ELSE LET initial_slashes ==
                 IF ~StartsWith(path, <<"/">>) THEN 0
                 ELSE IF StartsWith(path, <<"/", "/">>)
                         /\ ~StartsWith(path, <<"/", "/", "/">>) THEN 2
                 ELSE 1
             comps == NormComps(Split(path), 1, initial_slashes, <<>>)
             result == [i \in 1..initial_slashes |-> "/"] \o SlashJoin(comps)
         IN  IF result = <<>> THEN <<".">> ELSE result

\* the working directory of the server process
Cwd == <<"/", "w">>

\* posixpath.abspath(path)
os_path_abspath(path) ==
    IF StartsWith(path, <<"/">>) THEN os_path_normpath(path)
    ELSE os_path_normpath(os_path_join(Cwd, path))

\* path_join_safe(root_directory, filename): raised is "ValueError" or "",
\* path the returned value
path_join_safe(root_directory, filename) ==
    LET root == ReplaceBackslash(root_directory)
        name == ReplaceBackslash(filename)
        parts == {Split(name)[i] : i \in 1..Len(Split(name))}
    IN  IF <<".", ".">> \in parts \/ <<".">> \in parts
        THEN [raised |-> "ValueError", path |-> <<>>]
        ELSE [raised |-> "",
              path |-> os_path_abspath(os_path_join(root, name))]

\* the root directories the server is set up with
Roots == {<<"/", "r">>, <<"/", "r", "/">>, <<"r">>}

NameAlphabet == {"/", ".", "a", "\\"}

Filenames == UNION {[1..n -> NameAlphabet] : n \in 0..MaxNameLen}

NewJoin(root, filename) ==
    [stage |-> "new", root_directory |-> root, filename |-> filename,
     raised |-> "", path |-> <<>>]

InitPath ==
    /\ clock = 0
    /\ limiter = RateLimiter(RouterLimit, RouterIntervalMs, RouterCapacity)
    /\ route_table = EmptyRouteTable
    /\ routes = <<>>
    /\ last = NoLast
    /\ ret = NoRet
    /\ calls = [k \in LimiterKeys |-> NoCalls]
    /\ nsteps = 0
    /\ registered = {}
    /\ responses = Unused
    /\ compiled = Unused
    /\ cache = Unused
    /\ threads = Unused
    /\ joined \in {NewJoin(root, filename) :
                      root \in Roots, filename \in Filenames}
    /\ resource = Unused
    /\ transfer = Unused

\* one call path_join_safe(root_directory, filename)
JoinSafe ==
    /\ joined.stage = "new"
    /\ \E r \in {path_join_safe(joined.root_directory, joined.filename)} :
          joined' = [joined EXCEPT !.stage = "done", !.raised = r.raised,
                                   !.path = r.path]
    /\ UNCHANGED <<clock, limiter, route_table, routes, last, ret, calls,
                   nsteps, registered>>
    /\ UNCHANGED <<responses, compiled, cache, threads, resource, transfer>>

NextPath == JoinSafe

SpecPath == InitPath /\ [][NextPath]_vars

\* the components of the filename as the claim reads them: the pieces
\* between slashes
NameComponents(filename) ==
    {Split(filename)[i] : i \in 1..Len(Split(filename))}

\* absolute, and no component empty, "." or ".." after the leading slashes
IsNormalized(path) ==
    /\ StartsWith(path, <<"/">>)
    /\ \/ path \in {<<"/">>, <<"/", "/">>}
       \/ LET rest == IF StartsWith(path, <<"/", "/">>)
                      THEN SubSeq(path, 3, Len(path))
                      ELSE SubSeq(path, 2, Len(path))
          IN  \A i \in 1..Len(Split(rest)) :
                 Split(rest)[i] \notin {<<>>, <<".">>, <<".", ".">>}

\* the root directory as an absolute path
AbsRoot(root) ==
    IF StartsWith(root, <<"/">>) THEN SelectSeq(Split(root), LAMBDA c : c # <<>>)
    ELSE SelectSeq(Split(Cwd \o <<"/">> \o root), LAMBDA c : c # <<>>)

\* path is the root directory or lies below it
UnderRoot(path, root) ==
    LET have == SelectSeq(Split(path), LAMBDA c : c # <<>>)
        want == AbsRoot(root)
    IN  /\ Len(have) >= Len(want)
        /\ SubSeq(have, 1, Len(want)) = want

\* C19: path_join_safe either rejects the filename (whenever one of its
\* components is "." or "..") or returns an absolute normalized path with
\* the root directory as prefix; no accepted filename, absolute ones
\* included, yields a path outside the root directory.
C19_StaysUnderRoot ==
    joined.stage = "done" =>
        /\ (\E c \in NameComponents(joined.filename) :
               c \in {<<".">>, <<".", ".">>}) => joined.raised = "ValueError"
        /\ joined.raised = "" =>
              /\ IsNormalized(joined.path)
              /\ UnderRoot(joined.path, joined.root_directory)

-----------------------------------------------------------------------------
\* Resource: the routes collected from the annotated methods of a class

\* most statements in the body of the subclass, and of its parent class
MaxMembers == 2
MaxParentMembers == 1

\* def fname(self, ...): a function without annotation
Def(fname) ==
    [fname |-> fname, has_route |-> FALSE, route |-> <<>>, methods |-> "",
     has_options |-> FALSE, max_content_length |-> 0]

\* @get(path), @delete(path): _route and _methods
Annotate(f, method, path) ==
    [f EXCEPT !.has_route = TRUE, !.route = path, !.methods = method]

\* @put(path, max_content_length), @post(...): _options as well
AnnotateMax(f, method, path, max) ==
    [f EXCEPT !.has_route = TRUE, !.route = path, !.methods = method,
              !.has_options = TRUE, !.max_content_length = max]

\* OrderedPropertyMap()
OrderedPropertyMap == [member_names |-> <<>>, dict |-> <<>>]

InDict(dict, key) == \E i \in 1..Len(dict) : dict[i].key = key

\* OrderedPropertyMap.__setitem__(key, value)
OrderedPropertyMap_setitem(self, key, value) ==
    [member_names |->
         IF ~InDict(self.dict, key) THEN Append(self.member_names, key)
         ELSE self.member_names,
     dict |->
         IF InDict(self.dict, key)
         THEN [i \in 1..Len(self.dict) |->
                  IF self.dict[i].key = key
                  THEN [key |-> key, value |-> value] ELSE self.dict[i]]
         ELSE Append(self.dict, [key |-> key, value |-> value])]

RECURSIVE ClassBody(_, _, _)
\* the statements of a class body executed in the prepared namespace
ClassBody(stmts, i, classdict) ==
    IF i > Len(stmts) THEN classdict
    ELSE ClassBody(stmts, i + 1,
             OrderedPropertyMap_setitem(classdict, stmts[i].key,
                                        stmts[i].value))

\* the class Resource itself, and the place of "no base class"
NoClass == [name |-> "", bases |-> <<>>, dict |-> <<>>, member_names |-> <<>>]

\* OrderedClass.__new__(cls, name, bases, classdict): member_names is the
\* list recorded for this class body
OrderedClass_new(name, bases, classdict) ==
    [name |-> name, bases |-> bases, dict |-> classdict.dict,
     member_names |-> classdict.member_names]

ResourceClass ==
    OrderedClass_new("Resource", <<>>,
        ClassBody(<< [key |-> <<"_", "_", "i", "n", "i", "t", "_", "_">>,
                      value |-> Def(<<"_", "_", "i", "n", "i", "t", "_", "_">>)],
                     [key |-> <<"r", "o", "u", "t", "e", "s">>,
                      value |-> Def(<<"r", "o", "u", "t", "e", "s">>)] >>,
                  1, OrderedPropertyMap))

\* class name(base): stmts
ClassDef(name, base, stmts) ==
    OrderedClass_new(name, <<base>>, ClassBody(stmts, 1, OrderedPropertyMap))

NoAttr == [found |-> FALSE, value |-> Def(<<>>)]

RECURSIVE getattr(_, _)
\* getattr(self, name): the class of the instance first, then its bases
getattr(cls, name) ==
    IF InDict(cls.dict, name)
    THEN [found |-> TRUE,
          value |-> cls.dict[CHOOSE i \in 1..Len(cls.dict) :
                                 cls.dict[i].key = name].value]
    ELSE IF cls.bases = <<>> THEN NoAttr
    ELSE getattr(cls.bases[1], name)

\* self.__class__.__name__.replace("Resource", "").lower()
ClsName(name) ==
    CASE name = "ParentResource" -> "parent"
      [] name = "ChildResource"  -> "child"
      [] name = "Resource"       -> ""
      [] OTHER                   -> name

RECURSIVE CollectRoutes(_, _, _)
\* the loop of Resource.__init__ over self.member_names
CollectRoutes(cls, i, acc) ==
    IF i > Len(cls.member_names) THEN acc
    ELSE LET name == cls.member_names[i]
             attr == getattr(cls, name)
             func == attr.value
         IN  IF name[1] = "_" THEN CollectRoutes(cls, i + 1, acc)
             ELSE IF attr.found /\ func.has_route
             THEN CollectRoutes(cls, i + 1,
                      Append(acc,
                          [name |-> <<ClsName(cls.name), ".", func.fname>>,
                           method |-> func.methods,
                           pattern |-> func.route,
                           has_max |-> func.has_options,
                           max_content_length |->
                               IF func.has_options
                               THEN func.max_content_length ELSE 0]))
             ELSE CollectRoutes(cls, i + 1, acc)

\* Resource.__init__ of an instance of cls, and routes()
Resource_routes(cls) == CollectRoutes(cls, 1, <<>>)

MemberKeys == {<<"a">>, <<"b">>}

\* the statements a class body is made of: a method with or without
\* annotation, and an annotated method whose name starts with "_"
Statements ==
    {[key |-> k, value |-> Def(k)] : k \in MemberKeys}
    \cup {[key |-> k, value |-> Annotate(Def(k), "GET", <<"/", "g">> \o k)] :
             k \in MemberKeys}
    \cup {[key |-> k,
           value |-> AnnotateMax(Def(k), "PUT", <<"/", "p">> \o k, 7)] :
             k \in MemberKeys}
    \cup {[key |-> <<"_", "c">>,
           value |-> Annotate(Def(<<"_", "c">>), "GET", <<"/", "c">>)]}

Bodies(n) == UNION {[1..m -> Statements] : m \in 0..n}

\* a parent class derived from Resource and a class derived from it, or a
\* class derived from Resource directly
Classes ==
    {ClassDef("ChildResource", ClassDef("ParentResource", ResourceClass, pb),
              cb) : pb \in Bodies(MaxParentMembers), cb \in Bodies(MaxMembers)}
    \cup {ClassDef("ChildResource", ResourceClass, cb) :
             cb \in Bodies(MaxMembers)}

InitResource ==
    /\ clock = 0
    /\ limiter = RateLimiter(RouterLimit, RouterIntervalMs, RouterCapacity)
    /\ route_table = EmptyRouteTable
    /\ routes = <<>>
    /\ last = NoLast
    /\ ret = NoRet
    /\ calls = [k \in LimiterKeys |-> NoCalls]
    /\ nsteps = 0
    /\ registered = {}
    /\ responses = Unused
    /\ compiled = Unused
    /\ cache = Unused
    /\ threads = Unused
    /\ joined = Unused
    /\ resource \in {[stage |-> "class", cls |-> c, routes |-> <<>>] :
                        c \in Classes}
    /\ transfer = Unused

\* res = cls(); res.routes()
Instantiate ==
    /\ resource.stage = "class"
    /\ resource' = [resource EXCEPT !.stage = "instance",
                                    !.routes = Resource_routes(resource.cls)]
    /\ UNCHANGED <<clock, limiter, route_table, routes, last, ret, calls,
                   nsteps, registered>>
    /\ UNCHANGED <<responses, compiled, cache, threads, joined, transfer>>

NextResource == Instantiate

SpecResource == InitResource /\ [][NextResource]_vars

RECURSIVE Visible(_)
\* the names an instance of the class has as attributes, with the class
\* that declares the attribute found under that name
Visible(cls) ==
    {cls.dict[i].key : i \in 1..Len(cls.dict)}
    \cup (IF cls.bases = <<>> THEN {} ELSE Visible(cls.bases[1]))

\* the handler methods of the resource that carry an annotation
Handlers(cls) == {n \in Visible(cls) : getattr(cls, n).value.has_route}

\* route r carries what handler n of the class declared
Carries(r, cls, n) ==
    LET f == getattr(cls, n).value
    IN  /\ r.name[3] = n
        /\ r.method = f.methods
        /\ r.pattern = f.route
        /\ r.has_max = f.has_options
        /\ f.has_options => r.max_content_length = f.max_content_length

\* where the name was first declared in the body of the class
DeclaredAt(cls, n) ==
    CHOOSE i \in 1..Len(cls.member_names) : cls.member_names[i] = n

\* C20: routes() holds exactly one Route for every annotated handler of the
\* resource, those defined in a parent Resource class included, in the
\* order in which the handlers were declared, each with its declared
\* method, pattern and options.
C20_OneRoutePerHandler ==
    resource.stage = "instance" =>
        LET cls == resource.cls
            rs == resource.routes
        IN  /\ \A n \in Handlers(cls) :
                   Cardinality({i \in 1..Len(rs) : Carries(rs[i], cls, n)}) = 1
            /\ \A i \in 1..Len(rs) : \E n \in Handlers(cls) :
                   Carries(rs[i], cls, n)
            /\ \A i, j \in 1..Len(rs) :
                   (/\ i < j
                    /\ InDict(cls.dict, rs[i].name[3])
                    /\ InDict(cls.dict, rs[j].name[3]))
                   => DeclaredAt(cls, rs[i].name[3])
                          < DeclaredAt(cls, rs[j].name[3])

-----------------------------------------------------------------------------
\* RequestFactory.process: dispatch the request, write the response

\* most chunks a streamed payload is written in
MaxChunks == 2

\* the names bound in process when an except clause runs, and the names of
\* the module
ProcessLocals ==
    {"self", "t0", "router", "addr", "headers", "key", "value", "hostport",
     "path", "query", "fragment", "req", "response", "payload",
     "content_length", "k", "v", "buf", "e"}

ModuleGlobals ==
    {"os", "sys", "json", "time", "gzip", "io", "threading", "Thread",
     "reactor", "http", "urlparse", "unquote", "parse_qs", "re", "crypto",
     "Serializable", "mplogger", "parse_url", "Request", "RequestFactory"}

\* evaluating a name: NameError unless it is bound
NameLookup(name) ==
    IF name \in ProcessLocals \cup ModuleGlobals THEN "" ELSE "NameError"

\* the exceptions self.write is given to raise
WriteErrors == {"ConnectionAbortedError", "BrokenPipeError",
                "ConnectionResetError"}

\* the except clauses of process:
\* except ConnectionAbortedError / except BrokenPipeError:
\*     sys.stderr.write("%s aborted\n" % url.path)
\* any other exception is not caught
ExceptClause(exc) ==
    IF exc \in {"ConnectionAbortedError", "BrokenPipeError"}
    THEN IF NameLookup("url") # ""
         THEN [raised |-> NameLookup("url"), logged |-> 0]
         ELSE [raised |-> "", logged |-> 1]
    ELSE [raised |-> exc, logged |-> 0]

\* RequestFactory.process() once router.dispatch(req) came back with d (or
\* raised d.out.raised): the payload written in one piece (stream FALSE) or
\* read from a stream in `chunks` pieces, the write number fail.at raising
\* fail.exc (fail.at = 0: no write fails)
process(d, stream, chunks, fail) ==
    LET nwrites == IF stream THEN chunks ELSE 1
        failed == fail.at >= 1 /\ fail.at <= nwrites
        clause == ExceptClause(fail.exc)
    IN  IF d.out.raised # ""
        THEN [entered |-> FALSE, failed |-> FALSE, exc |-> "",
              written |-> 0, logged |-> 0, closed |-> FALSE, finished |-> 0,
              raised |-> d.out.raised]
        ELSE IF failed
        THEN [entered |-> TRUE, failed |-> TRUE, exc |-> fail.exc,
              written |-> fail.at - 1, logged |-> clause.logged,
              closed |-> stream, finished |-> 1, raised |-> clause.raised]
        ELSE [entered |-> TRUE, failed |-> FALSE, exc |-> "",
              written |-> nwrites, logged |-> 0, closed |-> stream,
              finished |-> 1, raised |-> ""]

Failures ==
    {[at |-> 0, exc |-> ""]}
    \cup {[at |-> i, exc |-> e] : i \in 1..MaxChunks, e \in WriteErrors}

\* the payload dispatch hands back: bytes written in one piece, or a stream
\* read in no piece or in MaxChunks pieces
Payloads ==
    {[stream |-> FALSE, chunks |-> 1]}
    \cup {[stream |-> TRUE, chunks |-> n] : n \in {0, MaxChunks}}

\* the requests sent: one served, one without route
ProcessRequests ==
    {[method |-> "GET", path |-> P_user_admin, cl |-> NoHeader],
     [method |-> "GET", path |-> P_up, cl |-> NoHeader]}

\* what the callback does: return a Response, or a str
ProcessHandlers == {"Response", "str"}

NoTransfer ==
    [entered |-> FALSE, failed |-> FALSE, exc |-> "", written |-> 0,
     logged |-> 0, closed |-> FALSE, finished |-> 0, raised |-> "",
     limiter_before |-> <<>>, limiter_dispatched |-> <<>>,
     route_table_before |-> <<>>, routes_before |-> <<>>, done |-> FALSE]

InitProcess ==
    /\ clock \in RouterClock
    /\ limiter = RateLimiter(RouterLimit, RouterIntervalMs, RouterCapacity)
    /\ \E r \in {registerRoutes(EmptyRouteTable, <<>>, UserResource)} :
          route_table = r.route_table /\ routes = r.routes
    /\ last = NoLast
    /\ ret = NoRet
    /\ calls = [k \in LimiterKeys |-> NoCalls]
    /\ nsteps = 0
    /\ registered = {"user"}
    /\ responses = Unused
    /\ compiled = Unused
    /\ cache = Unused
    /\ threads = Unused
    /\ joined = Unused
    /\ resource = Unused
    /\ transfer = NoTransfer

\* one request handled by RequestFactory.process; explored while the
\* client's window total is below MaxRequests
Process(ip, rq, h, payload, fail) ==
    /\ Total(limiter, ip) < MaxRequests
    /\ \E d \in {dispatch(limiter, route_table,
                          [ip |-> ip, method |-> rq.method, path |-> rq.path,
                           has_content_length |-> rq.cl.has,
                           content_length |-> rq.cl.values], h, clock)} :
       \E p \in {process(d, payload.stream, payload.chunks, fail)} :
           /\ limiter' = d.limiter
           /\ last' = [ip |-> ip, method |-> rq.method, path |-> rq.path,
                       has_content_length |-> rq.cl.has,
                       content_length |-> rq.cl.values,
                       limited |-> d.limited, looked |-> d.looked,
                       found |-> d.found, index |-> d.index,
                       matches |-> d.matches, invoked |-> d.invoked,
                       handler |-> d.handler, out |-> d.out,
                       rendered |-> d.rendered]
           /\ transfer' =
                 [entered |-> p.entered, failed |-> p.failed, exc |-> p.exc,
                  written |-> p.written, logged |-> p.logged,
                  closed |-> p.closed, finished |-> p.finished,
                  raised |-> p.raised,
                  limiter_before |-> limiter,
                  limiter_dispatched |-> d.limiter,
                  route_table_before |-> route_table,
                  routes_before |-> routes, done |-> TRUE]
    /\ UNCHANGED <<clock, route_table, routes, ret, calls, nsteps, registered>>
    /\ UNCHANGED <<responses, compiled, cache, threads, joined, resource>>

\* the wall clock moves on between two requests
AdvanceProcess ==
    /\ \E t \in RouterClock : t > clock /\ clock' = t
    /\ UNCHANGED <<limiter, route_table, routes, last, ret, calls, nsteps,
                   registered>>
    /\ UNCHANGED aux

NextProcess ==
    \/ AdvanceProcess
    \/ \E ip \in Clients, rq \in ProcessRequests, h \in ProcessHandlers,
          payload \in Payloads, fail \in Failures :
          Process(ip, rq, h, payload, fail)

SpecProcess == InitProcess /\ [][NextProcess]_vars

\* the write failed because the client went away
Disconnected ==
    /\ transfer.done
    /\ transfer.failed
    /\ transfer.exc \in {"ConnectionAbortedError", "BrokenPipeError"}

\* C21: when writing the response fails with ConnectionAbortedError or
\* BrokenPipeError, the condition is logged and swallowed: no exception
\* leaves process, the request is finished exactly once, and the limiter
\* and the route table are as dispatch left them.
C21_DisconnectSwallowed ==
    Disconnected =>
        /\ transfer.raised = ""
        /\ transfer.logged = 1
        /\ transfer.finished = 1
        /\ limiter = transfer.limiter_dispatched
        /\ route_table = transfer.route_table_before
        /\ routes = transfer.routes_before

-----------------------------------------------------------------------------
\* Router.registerRoutes called with batches of routes, failing ones included

\* most routes in one batch, and the number of registered routes up to
\* which further batches are registered
MaxBatch == 3
MaxRoutes == 4

P_a == <<"/", "a">>
\* a pattern patternToRegex refuses: a second suffixed token
P_invalid == <<"/", ":", "x", "?", "/", ":", "y", "*">>

\* the routes a batch is made of: two that register, one with an invalid
\* pattern, one with a method the table does not know
BatchRoutes ==
    {Route("r.get_a", "GET", P_a), RouteMax("r.put_a", "PUT", P_a, 10),
     Route("r.get_invalid", "GET", P_invalid),
     Route("r.patch_a", "PATCH", P_a)}

Batches == UNION {[1..n -> BatchRoutes] : n \in 0..MaxBatch}

NoBatch ==
    [called |-> FALSE, batch |-> <<>>, raised |-> "", routes_before |-> <<>>]

InitRegister ==
    /\ clock = 0
    /\ limiter = RateLimiter(RouterLimit, RouterIntervalMs, RouterCapacity)
    /\ route_table = EmptyRouteTable
    /\ routes = <<>>
    /\ last = NoLast
    /\ ret = NoRet
    /\ calls = [k \in LimiterKeys |-> NoCalls]
    /\ nsteps = 0
    /\ registered = NoBatch
    /\ AuxInit

\* Router.registerRoutes(batch); an exception leaves what the loop did
RegisterBatch(batch) ==
    /\ Len(routes) < MaxRoutes
    /\ \E r \in {registerRoutes(route_table, routes, batch)} :
           /\ route_table' = r.route_table
           /\ routes' = r.routes
           /\ registered' = [called |-> TRUE, batch |-> batch,
                             raised |-> r.raised, routes_before |-> routes]
    /\ UNCHANGED <<clock, limiter, last, ret, calls, nsteps>>
    /\ UNCHANGED aux

NextRegister == \E batch \in Batches : RegisterBatch(batch)

SpecRegister == InitRegister /\ [][NextRegister]_vars

\* the routes listed under method m in the route table, in order
TableRoutes(m) == [i \in 1..Len(route_table[m]) |-> route_table[m][i].route]

\* the routes of method m in Router.routes, in order
RoutesOfMethod(m) == SelectSeq(routes, LAMBDA r : r.method = m)

\* a route registerRoutes fails on
Refused(route) ==
    \/ patternToRegex(route.pattern).raised # ""
    \/ route.method \notin {"DELETE", "GET", "POST", "PUT"}

\* the place of the first such route in the batch, Len(batch) + 1 if none
FirstRefused(batch) ==
    CHOOSE i \in 1..(Len(batch) + 1) :
        /\ i <= Len(batch) => Refused(batch[i])
        /\ \A j \in 1..(i - 1) : ~Refused(batch[j])

\* C25: after any sequence of registerRoutes calls, calls that raise
\* part-way through a batch included, route_table[method] holds, in order,
\* exactly the routes of that method in Router.routes; the route that made
\* the call fail and the routes after it are in neither, the routes before
\* it are registered in both.
C25_RoutesAndTableConsistent ==
    /\ \A m \in DOMAIN route_table : TableRoutes(m) = RoutesOfMethod(m)
    /\ \A i \in 1..Len(routes) : routes[i].method \in DOMAIN route_table
    /\ registered.called =>
          /\ routes = registered.routes_before
                         \o SubSeq(registered.batch, 1,
                                   FirstRefused(registered.batch) - 1)
          /\ registered.raised # ""
                <=> FirstRefused(registered.batch) <= Len(registered.batch)

\* a call failed on the second route of a batch of three, after an earlier
\* call had registered routes
C25_Witness ==
    /\ registered.called
    /\ registered.raised = "ValueError"
    /\ Len(registered.batch) = 3
    /\ FirstRefused(registered.batch) = 2
    /\ registered.routes_before # <<>>
    /\ Len(routes) = Len(registered.routes_before) + 1

-----------------------------------------------------------------------------
\* Router.dispatch for two clients: what each request does to the limiter

CountClients == {"A", "B"}

\* requests for each outcome: a handler called, no route, no Content-Length,
\* a payload too large
CountRequests ==
    {[method |-> "GET", path |-> P_user_admin, cl |-> NoHeader],
     [method |-> "GET", path |-> P_up, cl |-> NoHeader],
     [method |-> "PUT", path |-> P_up, cl |-> NoHeader],
     [method |-> "PUT", path |-> P_up, cl |-> Header(<<"2", "0">>)]}

\* what the callback does: return a Response, or raise
CountHandlers == {"Response", "raise"}

InitCount ==
    /\ clock \in RouterClock
    /\ limiter = RateLimiter(RouterLimit, RouterIntervalMs, RouterCapacity)
    /\ \E r \in {registerRoutes(EmptyRouteTable, <<>>, UserResource)} :
          route_table = r.route_table /\ routes = r.routes
    /\ last = NoLast
    /\ ret = NoRet
    /\ calls = [k \in LimiterKeys |-> NoCalls]
    /\ nsteps = 0
    /\ registered = {"user"}
    /\ AuxInit

NextCount ==
    \/ Advance
    \/ \E ip \in CountClients, rq \in CountRequests, h \in CountHandlers :
          Dispatch(ip, rq, h)

SpecCount == InitCount /\ [][NextCount]_vars

\* the value stored under key k in the limiter's counter cache
CounterOf(self, k) == self.counter.items[IndexOf(self.counter, k)].val

\* the client has a counter whose stored bin is the bin of the clock
InSameBin(ip) ==
    /\ Contains(limiter.counter, ip)
    /\ CounterOf(limiter, ip)._current_index
          = clock \div CounterOf(limiter, ip).interval_ms

\* C26: every dispatch call performs exactly one limiter increment, for the
\* key equal to the request's client IP, whatever the outcome (429, 404,
\* 411, 413, 500 or a handler response): a request rejected with 429 counts
\* toward the client's window total as well, and the counter of no other
\* key is touched.
C26_OneIncrementPerDispatch ==
    [][(/\ clock' = clock
        /\ last'.method # ""
        /\ last'.out.raised \notin {"IndexError", "KeyError", "AttributeError"})
       => /\ limiter' = insert(limiter, last'.ip, clock).self
          /\ Contains(limiter'.counter, last'.ip)
          /\ Total(limiter', last'.ip) >= 1
          /\ InSameBin(last'.ip)
                => Total(limiter', last'.ip) = Total(limiter, last'.ip) + 1
          /\ \A k \in Keys(limiter.counter) \ {last'.ip} :
                /\ Contains(limiter'.counter, k)
                /\ CounterOf(limiter', k) = CounterOf(limiter, k)
          /\ limiter'.blocked = limiter.blocked]_vars

\* a request was rejected with 429 and counted, while another client has a
\* counter of its own
C26_Witness ==
    /\ last.limited
    /\ last.out.status = 429
    /\ Total(limiter, last.ip) = RouterLimit + 1
    /\ \E k \in CountClients \ {last.ip} : Total(limiter, k) >= 1

=============================================================================
